---- MODULE Spec2Model ----
(***************************************************************************)
(* Model of src/main.py, the literature scan of PubMed-Researcher:         *)
(* run_scan loads the seen PMIDs, and for each query fetches a page of     *)
(* papers (get_papers), filters the seen ones, analyses each new paper     *)
(* (analyze_paper), synthesises the batch (synthesize_batch), pushes each  *)
(* analysed paper to Notion (push_to_notion) and records the PMIDs whose   *)
(* push succeeded; save_seen writes the set back at the end of the run.    *)
(*                                                                         *)
(* Texts are sequences of one-character strings, so that slicing, strip,   *)
(* lower and the substring test are computed as Python computes them.      *)
(* An uncaught exception ends the process (pc = "Dead", exc names the      *)
(* function that raised); Restart starts the process again.                *)
(***************************************************************************)
EXTENDS Integers, Sequences, FiniteSets, TLC

\* ------------------------------------------------------------------ bounds
MaxPage    == 2      \* length of the idlist esearch returns (retmax in the code is 5)
MaxItems   == 3      \* PMIDs esearch returns over the queries of one run
MaxBatch   == 3      \* length of the idlist of a run with one answered query
LongLen    == 5000   \* length of the longest text a paper, the engine or keywords.txt holds

\* ------------------------------------------------------- program constants
RT_MAX       == 2000 \* str(text)[:2000]
TITLE_PREFIX == 10   \* paper["title"][:10]

\* ------------------------------------------------------------------- texts
EMPTY    == << >>
NO_TITLE == <<"N", "o", " ", "T", "i", "t", "l", "e">>
SINGLE_NOTE ==
  <<"N", "/", "A", " ", "EMDASH", " ", "o", "n", "l", "y", " ", "o", "n", "e", " ",
    "p", "a", "p", "e", "r", " ", "i", "n", " ", "b", "a", "t", "c", "h", ".">>
ERROR_NOTE ==
  <<"S", "y", "n", "t", "h", "e", "s", "i", "s", " ", "e", "r", "r", "o", "r", ".">>
NO_CONTRADICTIONS ==
  <<"N", "o", " ", "d", "i", "r", "e", "c", "t", " ", "c", "o", "n", "t", "r", "a",
    "d", "i", "c", "t", "i", "o", "n", "s", " ", "d", "e", "t", "e", "c", "t", "e",
    "d", ".">>
SUBSTANTIVE_NOTE ==
  <<"C", "o", "n", "t", "r", "a", "d", "i", "c", "t", "i", "o", "n", ":", " ", "[",
    "1", "]", " ", "A", "s", "p", "i", "r", "i", "n", " ", "a", "n", "d", " ", "s",
    "t", "r", "o", "k", "e", " ", "v", "s", " ", "[", "2", "]", ".">>
ASPIRIN ==
  <<"A", "s", "p", "i", "r", "i", "n", " ", "a", "n", "d", " ", "s", "t", "r", "o",
    "k", "e">>
BLANKS == <<" ", " ">>
CROSS_PAPER ==
  <<"[", "C", "r", "o", "s", "s", "-", "p", "a", "p", "e", "r", "]", " ">>
NEEDLE == <<"c", "o", "n", "t", "r", "a", "d", "i", "c", "t", "i", "o", "n">>
NEWLINES == <<"\n", "\n">>
HYPOTHESES == <<"H", "1", ";", "H", "2">>

Min(a, b) == IF a < b THEN a ELSE b

\* str.lower() on one character (the letters the texts use)
LowerChar(c) ==
  CASE c = "A" -> "a" [] c = "C" -> "c" [] c = "H" -> "h" [] c = "N" -> "n"
    [] c = "S" -> "s" [] c = "T" -> "t"
    [] OTHER -> c

Lower(s) == [i \in 1..Len(s) |-> LowerChar(s[i])]

\* Python's  pat in s  on strings
Contains(pat, s) ==
  \E i \in 0..(Len(s) - Len(pat)) : SubSeq(s, i + 1, i + Len(pat)) = pat

\* Python's  s[:n]
Prefix(s, n) == SubSeq(s, 1, Min(Len(s), n))

RECURSIVE LStrip(_)
LStrip(s) == IF s # << >> /\ Head(s) = " " THEN LStrip(Tail(s)) ELSE s

RECURSIVE RStrip(_)
RStrip(s) ==
  IF s # << >> /\ s[Len(s)] = " " THEN RStrip(SubSeq(s, 1, Len(s) - 1)) ELSE s

\* str.strip()
Strip(s) == RStrip(LStrip(s))


Range(f) == {f[i] : i \in DOMAIN f}

\* ------------------------------------------------------ Literature Source
\* The articles efetch serves: for each PMID, what the XML holds for
\* ArticleTitle: found (the element exists), children (it has child elements,
\* such as <i>), text (the element's .text; EMPTY when it is None or "").
PubMed ==
  [p1 |-> [found |-> TRUE, children |-> TRUE,  text |-> BLANKS],
   p2 |-> [found |-> TRUE, children |-> FALSE, text |-> ASPIRIN]]

Pmids == DOMAIN PubMed

\* line 81:  (root.find(".//ArticleTitle") or ET.Element("x")).text or "No Title"
\* An Element without children is falsy, so the fresh Element("x"), whose
\* text is None, is taken for it.  Line 90 strips the title.
ArticleTitle(el) ==
  LET text == IF el.found /\ el.children THEN el.text ELSE EMPTY
  IN  Strip(IF text = EMPTY THEN NO_TITLE ELSE text)

Url(pmid) == <<"https://pubmed.ncbi.nlm.nih.gov/", pmid, "/">>

\* What one efetch request does: "ok" (status 200, XML that parses),
\* "status" (status other than 200, or no XML prolog: the item is skipped),
\* "badxml" (ET.ParseError, caught: the item is skipped), "transport"
\* (requests.get raises: connection error or timeout; line 76 is outside any try).
DetailOutcomes == {"ok", "status", "badxml", "transport"}

SearchOutcomes == {"ok", "fail"}

RECURSIVE FetchFrom(_, _, _)
FetchFrom(ids, detail, i) ==
  IF i > Len(ids) THEN << >>
  ELSE LET rest == FetchFrom(ids, detail, i + 1)
       IN  IF detail[i] = "ok"
             THEN <<[pmid  |-> ids[i],
                     title |-> ArticleTitle(PubMed[ids[i]]),
                     url   |-> Url(ids[i])]>> \o rest
             ELSE rest

\* get_papers: the search is inside try/except and yields [] on any failure;
\* the detail requests are not, so a transport error leaves get_papers as an
\* exception.
get_papers(ids, search, detail) ==
  IF search = "fail"
    THEN [raised |-> FALSE, papers |-> << >>]
  ELSE IF \E i \in 1..Len(ids) : detail[i] = "transport"
    THEN [raised |-> TRUE, papers |-> << >>]
  ELSE [raised |-> FALSE, papers |-> FetchFrom(ids, detail, 1)]

\* ------------------------------------------------------------ Persistence
NoFile == [exists |-> FALSE, content |-> << >>]

\* load_seen that forgets the file
load_seen_empty(file) == {}

\* load_seen: set(json.load(f)) when the file exists, else set()
load_seen(file) == IF file.exists THEN Range(file.content) ELSE {}

\* save_seen: json.dump(list(seen)); the order of list(seen) is any order
save_seen(s) ==
  {[exists |-> TRUE, content |-> c] :
     c \in {q \in [1..Cardinality(s) -> s] : Range(q) = s}}

\* ---------------------------------------------------------------- dicts
\* A dict is a record over the keys it may hold; ABSENT marks a key that the
\* dict does not hold.
ABSENT == <<"ABSENT">>

expected_keys == {"summary", "methods", "population", "effect_sizes", "hypothesis"}

Keys(d) == {key \in DOMAIN d : d[key] # ABSENT}

\* dict.get(key, default)
Get(d, key, default) == IF d[key] # ABSENT THEN d[key] ELSE default

EmptyDict == [key \in expected_keys |-> ABSENT]

FullDict ==
  [key \in expected_keys |->
     CASE key = "summary"      -> <<"s", "u", "m">>
       [] key = "methods"      -> <<"R", "C", "T">>
       [] key = "population"   -> <<"a", "d", "u", "l", "t", "s">>
       [] key = "effect_sizes" -> <<"O", "R", "=", "2">>
       [] key = "hypothesis"   -> <<"h", "y", "p">>]


\* ---------------------------------------------------------- Analysis Engine
\* What one generate_content call does: "raise" (the call throws: timeout,
\* quota), "garbage" (response.text is not parseable JSON), "list0" (the JSON
\* is []), "scalar" (the JSON is a string or a number), "dict" (a JSON object
\* d), "list1" (the one-element list [d]).
FailKinds == {"raise", "garbage", "list0", "scalar"}

DictKinds == {"dict", "list1"}

ExtractDicts ==
  {FullDict,
   [FullDict EXCEPT !["summary"] = ABSENT],
   EmptyDict}

ExtractReplies ==
  {[kind |-> kd, d |-> EmptyDict] : kd \in FailKinds}
    \cup {[kind |-> kd, d |-> d] : kd \in DictKinds, d \in ExtractDicts}

\* analyze_paper, lines 127-147.  raised: the exception leaves the function.
\* When generate_content throws, the handler's  response.text[:300]  reads the
\* local  response  that was never bound: UnboundLocalError, raised inside
\* the except block (hasattr(e, '__context__') is true of every exception).
\* json.loads failing, raw[0] on [] and result.keys() on a scalar are caught
\* with response bound: None is returned.
analyze_paper(reply) ==
  CASE reply.kind = "raise"
         -> [raised |-> TRUE,  none |-> TRUE,  analysis |-> EmptyDict]
    [] reply.kind \in {"garbage", "list0", "scalar"}
         -> [raised |-> FALSE, none |-> TRUE,  analysis |-> EmptyDict]
    [] reply.kind \in DictKinds
         -> [raised |-> FALSE, none |-> FALSE, analysis |-> reply.d]

\* line 307:  if analysis:   (None and the empty dict are falsy)
Truthy(res) == ~res.none /\ Keys(res.analysis) # {}

\* ------------------------------------------------------------- synthesis
NoSynthesis == [contradictions |-> ABSENT, new_hypotheses |-> ABSENT]

SingleSynthesis == [contradictions |-> SINGLE_NOTE, new_hypotheses |-> EMPTY]

ErrorSynthesis == [contradictions |-> ERROR_NOTE, new_hypotheses |-> EMPTY]

SynthDicts ==
  {[contradictions |-> NO_CONTRADICTIONS, new_hypotheses |-> HYPOTHESES],
   [contradictions |-> SUBSTANTIVE_NOTE,  new_hypotheses |-> HYPOTHESES]}

SynthReplies ==
  {[kind |-> kd, d |-> NoSynthesis] : kd \in FailKinds}
    \cup {[kind |-> kd, d |-> d] : kd \in DictKinds, d \in SynthDicts}

\* the prompt items numbered as enumerate numbers them, from 0
Summaries_ZeroBased(papers_with_analysis) ==
  [i \in 1..Len(papers_with_analysis) |->
     [ordinal |-> i - 1,
      title   |-> papers_with_analysis[i].title,
      summary |-> papers_with_analysis[i].analysis["summary"]]]

\* lines 157-160: the items of the prompt,  [{i+1}] {title} ...: {summary}
\* for i, p in enumerate(papers_with_analysis)  (i counts from 0)
Summaries(papers_with_analysis) ==
  [i \in 1..Len(papers_with_analysis) |->
     [ordinal |-> (i - 1) + 1,
      title   |-> papers_with_analysis[i].title,
      summary |-> papers_with_analysis[i].analysis["summary"]]]

\* synthesize_batch without the guard of lines 154-155
synthesize_batch_unguarded(papers_with_analysis, reply) ==
  IF \E i \in 1..Len(papers_with_analysis) :
       papers_with_analysis[i].analysis["summary"] = ABSENT
    THEN [raised |-> TRUE, calls |-> 0, isdict |-> TRUE, synthesis |-> NoSynthesis]
  ELSE CASE reply.kind \in {"raise", "garbage", "list0"}
              -> [raised |-> FALSE, calls |-> 1, isdict |-> TRUE,
                  synthesis |-> ErrorSynthesis]
         [] reply.kind = "scalar"
              -> [raised |-> FALSE, calls |-> 1, isdict |-> FALSE,
                  synthesis |-> NoSynthesis]
         [] reply.kind \in DictKinds
              -> [raised |-> FALSE, calls |-> 1, isdict |-> TRUE,
                  synthesis |-> reply.d]

\* synthesize_batch, lines 152-179.  calls: engine calls made; isdict: the
\* value returned is a dict (a scalar JSON answer is returned as it is).
\* Building the prompt reads p['analysis']['summary'] of every item outside
\* the try: KeyError when an analysis lacks the key.
synthesize_batch(papers_with_analysis, reply) ==
  IF Len(papers_with_analysis) < 2
    THEN [raised |-> FALSE, calls |-> 0, isdict |-> TRUE, synthesis |-> SingleSynthesis]
  ELSE IF \E i \in DOMAIN Summaries(papers_with_analysis) :
            Summaries(papers_with_analysis)[i].summary = ABSENT
    THEN [raised |-> TRUE, calls |-> 0, isdict |-> TRUE, synthesis |-> NoSynthesis]
  ELSE CASE reply.kind \in {"raise", "garbage", "list0"}
              -> [raised |-> FALSE, calls |-> 1, isdict |-> TRUE,
                  synthesis |-> ErrorSynthesis]
         [] reply.kind = "scalar"
              -> [raised |-> FALSE, calls |-> 1, isdict |-> FALSE,
                  synthesis |-> NoSynthesis]
         [] reply.kind \in DictKinds
              -> [raised |-> FALSE, calls |-> 1, isdict |-> TRUE,
                  synthesis |-> reply.d]

\* ------------------------------------------------------------ Sync Writer
\* an rt that submits the text as it is
rt_untruncated(text) == text

\* rt, lines 224-226:  str(text)[:2000]
rt(text) == Prefix(text, RT_MAX)

\* "\n\n".join(filter(None, [a, b]))
JoinNonEmpty(a, b) ==
  IF a = EMPTY THEN b ELSE IF b = EMPTY THEN a ELSE a \o NEWLINES \o b

\* lines 252-254
Status(title, contradiction_note) ==
  IF Contains(NEEDLE, Lower(contradiction_note))
       /\ Contains(Prefix(title, TITLE_PREFIX), contradiction_note)
    THEN "Flagged" ELSE "New"

\* lines 229-258
Payload(paper, analysis, synth, query) ==
  LET contradiction_note == Get(synth, "contradictions", EMPTY)
      new_hypotheses     == Get(synth, "new_hypotheses", EMPTY)
      full_hypothesis    ==
        JoinNonEmpty(Get(analysis, "hypothesis", EMPTY),
                     IF new_hypotheses # EMPTY
                       THEN CROSS_PAPER \o new_hypotheses ELSE EMPTY)
  IN  [Name        |-> rt(paper.title),
       Summary     |-> rt(Get(analysis, "summary", EMPTY)),
       Methods     |-> rt(Get(analysis, "methods", EMPTY)),
       Population  |-> rt(Get(analysis, "population", EMPTY)),
       EffectSizes |-> rt(Get(analysis, "effect_sizes", EMPTY)),
       Hypothesis  |-> rt(full_hypothesis),
       Contradicts |-> rt(contradiction_note),
       Link        |-> paper.url,
       Query       |-> rt(query),
       Status      |-> Status(paper.title, contradiction_note)]

\* What one POST to the store does: "200", "rejected" (another status, with
\* or without a JSON error body), "transport" (requests.post raises:
\* connection error or timeout; line 263 is outside any try).
PostOutcomes == {"200", "rejected", "transport"}

\* a push_to_notion that labels every record with the first query
push_to_notion_first_query(paper, analysis, synth, query, post) ==
  [raised  |-> post = "transport",
   success |-> post = "200",
   payload |-> Payload(paper, analysis, synth, <<"q", "1">>)]

\* push_to_notion, lines 216-275
push_to_notion(paper, analysis, synth, query, post) ==
  [raised  |-> post = "transport",
   success |-> post = "200",
   payload |-> Payload(paper, analysis, synth, query)]


\* ------------------------------------------------------------------ state
VARIABLES
  pc,          \* where run_scan stands: Idle, Query, Analyze, Push, Dead
  exc,         \* the function whose exception ended the process ("none")
  seen_file,   \* seen_pmids.json
  source,      \* the idlist esearch returns for each query
  queries,     \* run_scan: the queries read from keywords.txt
  seen,        \* run_scan: the dedup set
  qi,          \* run_scan: index of the current query
  papers,      \* run_scan: the page get_papers returned
  new_papers,  \* run_scan: the papers that passed the filter
  k,           \* run_scan: index into new_papers of the next paper to analyse
  analyzed,    \* run_scan: the analysed papers of the batch
  synthesis,   \* run_scan: the synthesis of the batch
  j,           \* run_scan: index into analyzed of the next paper to push
  filter_seen, \* history: the dedup set when the current page was filtered
  outcomes,    \* history: per analysed-or-not new paper, what the extraction did
  calls,       \* history: engine calls made for the current query
  syntheses,   \* history: calls of synthesize_batch made for the current query
  pushes,      \* history: the push_to_notion calls of the current query
  inserted,    \* history: per PMID, inserts the store accepted in the current run
  lost,        \* history: what the exception that ended the process left undone
  failed,      \* history: the PMIDs whose extraction, or insert, failed in the
               \* current run; before: those that failed in the run before, a
               \* run that reached save_seen and did not insert them
  source_up,   \* environment: the source answers every request (never fails)
  prev_done    \* history: the run before this one reached save_seen

vars == <<pc, exc, seen_file, source, queries, seen, qi, papers, new_papers,
          k, analyzed, synthesis, j, filter_seen, outcomes, calls, syntheses,
          pushes, inserted, lost, failed, source_up, prev_done>>

query_vars == <<papers, new_papers, k, analyzed, synthesis, j, filter_seen,
                outcomes, calls, syntheses, pushes>>

\* the queries of keywords.txt (lines 287-288)
Queries == << <<"q", "1">>, <<"q", "2">> >>

NumQueries == Len(Queries)

Pages == UNION {[1..n -> Pmids] : n \in 0..MaxPage}

RECURSIVE ItemsFrom(_, _)
ItemsFrom(s, q) == IF q > NumQueries THEN 0 ELSE Len(s[q]) + ItemsFrom(s, q + 1)

\* what esearch may return for the queries
Sources == {s \in [1..NumQueries -> Pages] : ItemsFrom(s, 1) <= MaxItems}

NoInserts == [p \in Pmids |-> 0]

SourcePmids == UNION {Range(source[q]) : q \in DOMAIN source}

\* a filter that also skips the PMIDs whose insert was tried and refused
FilterNew_Tried(page, s) ==
  SelectSeq(page, LAMBDA p : p.pmid \notin (s \cup failed.insert))

\* line 295:  [p for p in papers if p["pmid"] not in seen]
FilterNew(page, s) == SelectSeq(page, LAMBDA p : p.pmid \notin s)

\* a run_scan that never records a pushed PMID
RecordSeen_Never(s, pmid, success) == s

\* a run_scan that records every pushed PMID, whatever the store answered
RecordSeen_Always(s, pmid, success) == s \cup {pmid}

\* lines 323-325:  if success: seen.add(entry["pmid"])
RecordSeen(s, pmid, success) == IF success THEN s \cup {pmid} ELSE s

NoLoss == [unanalysed |-> 0, unpushed |-> 0, queries |-> 0]

NoFailed == [extract |-> {}, insert |-> {}, before |-> {}]

\* the locals of a query that has not started
ClearQuery ==
  /\ papers' = << >>
  /\ new_papers' = << >>
  /\ k' = 0
  /\ analyzed' = << >>
  /\ synthesis' = NoSynthesis
  /\ j' = 0
  /\ filter_seen' = {}
  /\ outcomes' = << >>
  /\ calls' = 0
  /\ syntheses' = 0
  /\ pushes' = << >>

\* the process before its first run, over a source that answers from S
InitOver(S) ==
  /\ pc = "Idle"
  /\ exc = "none"
  /\ seen_file = NoFile
  /\ source \in S
  /\ queries = << >>
  /\ seen = {}
  /\ qi = 0
  /\ papers = << >>
  /\ new_papers = << >>
  /\ k = 0
  /\ analyzed = << >>
  /\ synthesis = NoSynthesis
  /\ j = 0
  /\ filter_seen = {}
  /\ outcomes = << >>
  /\ calls = 0
  /\ syntheses = 0
  /\ pushes = << >>
  /\ inserted = NoInserts
  /\ lost = NoLoss
  /\ failed = NoFailed
  /\ source_up \in BOOLEAN
  /\ prev_done = FALSE

Init == InitOver(Sources)

\* an uncaught exception raised in function f ends the process: what
\* run_scan held in memory is gone, the file and the store stay
Raise(f, undone) ==
  /\ pc' = "Dead"
  /\ exc' = f
  /\ lost' = undone
  /\ failed' = NoFailed
  /\ queries' = << >>
  /\ seen' = {}
  /\ qi' = 0
  /\ ClearQuery

\* run_scan, lines 285-288: load the dedup set, read the queries
StartRun ==
  /\ pc = "Idle"
  /\ inserted' = NoInserts
  /\ \E keywords \in {"ok", "missing"} :
       IF keywords = "ok"
         THEN /\ seen' = load_seen(seen_file)
              /\ queries' = Queries
              /\ qi' = 1
              /\ pc' = "Query"
              /\ failed' = [NoFailed EXCEPT !.before = failed.before]
              /\ UNCHANGED <<exc, lost, query_vars>>
         ELSE Raise("open_keywords", NoLoss)
  /\ UNCHANGED <<seen_file, source, source_up, prev_done>>

\* run_scan, lines 290-300: fetch the page of the query and filter it; a
\* source that is up answers every request, another may fail any of them
GetPapers ==
  /\ pc = "Query"
  /\ qi <= Len(queries)
  /\ \E search \in (IF source_up THEN {"ok"} ELSE SearchOutcomes),
        detail \in [1..Len(source[qi]) ->
                      (IF source_up THEN {"ok"} ELSE DetailOutcomes)] :
       LET res == get_papers(source[qi], search, detail)
           new == FilterNew(res.papers, seen)
       IN  IF res.raised
             THEN Raise("get_papers", [NoLoss EXCEPT !.queries = Len(queries) - qi])
           ELSE IF new = << >>
             THEN /\ qi' = qi + 1
                  /\ UNCHANGED <<pc, exc, lost, failed, queries, seen, query_vars>>
           ELSE /\ pc' = "Analyze"
                /\ papers' = res.papers
                /\ new_papers' = new
                /\ k' = 1
                /\ filter_seen' = seen
                /\ UNCHANGED <<exc, lost, failed, queries, seen, qi, analyzed,
                               synthesis, j, outcomes, calls, syntheses, pushes>>
  /\ UNCHANGED <<seen_file, source, inserted, source_up, prev_done>>

\* what the extraction of one paper came to: "failed" (the engine threw or
\* answered with text that is not JSON), "dropped" (JSON that is no object),
\* "empty" (the object {}, or [{}]: falsy at line 307), "kept"
Outcome(reply, res) ==
  IF reply.kind \in {"raise", "garbage"} THEN "failed"
  ELSE IF Truthy(res) THEN "kept"
  ELSE IF reply.kind \in DictKinds THEN "empty" ELSE "dropped"

\* run_scan, lines 304-309: analyse the next new paper
AnalyzeStep ==
  /\ pc = "Analyze"
  /\ k <= Len(new_papers)
  /\ \E reply \in ExtractReplies :
       LET res == analyze_paper(reply)
           paper == new_papers[k]
       IN  IF res.raised
             THEN Raise("analyze_paper",
                        [unanalysed |-> Len(new_papers) - k,
                         unpushed   |-> Len(analyzed),
                         queries    |-> Len(queries) - qi])
             ELSE /\ calls' = calls + 1
                  /\ outcomes' = Append(outcomes, Outcome(reply, res))
                  /\ k' = k + 1
                  /\ analyzed' =
                       IF Truthy(res)
                         THEN Append(analyzed,
                                     [pmid |-> paper.pmid, title |-> paper.title,
                                      url |-> paper.url, analysis |-> res.analysis])
                         ELSE analyzed
                  /\ failed' =
                       IF Truthy(res) THEN failed
                       ELSE [failed EXCEPT !.extract = @ \cup {paper.pmid}]
                  /\ UNCHANGED <<pc, exc, lost, queries, seen, qi, papers,
                                 new_papers, synthesis, j, filter_seen, syntheses,
                                 pushes>>
  /\ UNCHANGED <<seen_file, source, inserted, source_up, prev_done>>

\* run_scan, lines 311-312: no paper of the batch was analysed
SkipBatch ==
  /\ pc = "Analyze"
  /\ k > Len(new_papers)
  /\ analyzed = << >>
  /\ pc' = "Query"
  /\ qi' = qi + 1
  /\ ClearQuery
  /\ UNCHANGED <<exc, seen_file, source, queries, seen, inserted, lost, failed,
                 source_up, prev_done>>

\* run_scan, lines 316-318: synthesise the batch; line 317 calls .get on
\* what synthesize_batch returned
Synthesize ==
  /\ pc = "Analyze"
  /\ k > Len(new_papers)
  /\ analyzed # << >>
  /\ \E reply \in SynthReplies :
       LET res == synthesize_batch(analyzed, reply)
           undone == [unanalysed |-> 0, unpushed |-> Len(analyzed),
                      queries |-> Len(queries) - qi]
       IN  IF res.raised
             THEN Raise("synthesize_batch", undone)
           ELSE IF ~res.isdict
             THEN Raise("synthesis_get", undone)
           ELSE /\ pc' = "Push"
                /\ synthesis' = res.synthesis
                /\ j' = 1
                /\ calls' = calls + res.calls
                /\ syntheses' = syntheses + 1
                /\ UNCHANGED <<exc, lost, failed, queries, seen, qi, papers,
                               new_papers, k, analyzed, filter_seen, outcomes,
                               pushes>>
  /\ UNCHANGED <<seen_file, source, inserted, source_up, prev_done>>

\* run_scan, lines 321-326: push the next analysed paper, record it on success
PushStep ==
  /\ pc = "Push"
  /\ j <= Len(analyzed)
  /\ \E post \in PostOutcomes :
       LET entry == analyzed[j]
           res == push_to_notion(entry, entry.analysis, synthesis, queries[qi], post)
       IN  IF res.raised
             THEN /\ Raise("push_to_notion",
                           [unanalysed |-> 0, unpushed |-> Len(analyzed) - j,
                            queries |-> Len(queries) - qi])
                  /\ UNCHANGED inserted
             ELSE /\ pushes' = Append(pushes, [pmid |-> entry.pmid,
                                               title |-> entry.title,
                                               payload |-> res.payload,
                                               success |-> res.success])
                  /\ seen' = RecordSeen(seen, entry.pmid, res.success)
                  /\ inserted' =
                       IF res.success
                         THEN [inserted EXCEPT ![entry.pmid] = @ + 1]
                         ELSE inserted
                  /\ failed' =
                       IF res.success THEN failed
                       ELSE [failed EXCEPT !.insert = @ \cup {entry.pmid}]
                  /\ j' = j + 1
                  /\ UNCHANGED <<pc, exc, lost, queries, qi, papers, new_papers, k,
                                 analyzed, synthesis, filter_seen, outcomes, calls,
                                 syntheses>>
  /\ UNCHANGED <<seen_file, source, source_up, prev_done>>

\* run_scan, line 290: the batch is pushed, on to the next query
NextQuery ==
  /\ pc = "Push"
  /\ j > Len(analyzed)
  /\ pc' = "Query"
  /\ qi' = qi + 1
  /\ ClearQuery
  /\ UNCHANGED <<exc, seen_file, source, queries, seen, inserted, lost, failed,
                 source_up, prev_done>>

\* a run_scan that saves every PMID it analysed or pushed, failed or not
SaveSeen_Tried ==
  /\ pc = "Query"
  /\ qi > Len(queries)
  /\ seen_file' \in save_seen(seen \cup failed.extract \cup failed.insert)
  /\ prev_done' = TRUE
  /\ failed' = [NoFailed EXCEPT
                  !.before = {p \in failed.extract \cup failed.insert :
                                inserted[p] = 0}]
  /\ pc' = "Idle"
  /\ queries' = << >>
  /\ seen' = {}
  /\ qi' = 0
  /\ UNCHANGED <<exc, source, inserted, lost, source_up, query_vars>>

\* run_scan, lines 328-329: all queries done, save the dedup set; the locals
\* of run_scan end with it
SaveSeen ==
  /\ pc = "Query"
  /\ qi > Len(queries)
  /\ seen_file' \in save_seen(seen)
  /\ prev_done' = TRUE
  /\ failed' = [NoFailed EXCEPT
                  !.before = {p \in failed.extract \cup failed.insert :
                                inserted[p] = 0}]
  /\ pc' = "Idle"
  /\ queries' = << >>
  /\ seen' = {}
  /\ qi' = 0
  /\ UNCHANGED <<exc, source, inserted, lost, source_up, query_vars>>

\* the process that an exception ended is started again (lines 334-338)
Restart ==
  /\ pc = "Dead"
  /\ pc' = "Idle"
  /\ exc' = "none"
  /\ prev_done' = FALSE
  /\ lost' = NoLoss
  /\ UNCHANGED <<seen_file, source, queries, seen, qi, inserted, failed,
                 source_up, query_vars>>

Next ==
  \/ StartRun
  \/ GetPapers
  \/ AnalyzeStep
  \/ SkipBatch
  \/ Synthesize
  \/ PushStep
  \/ NextQuery
  \/ SaveSeen
  \/ Restart

Spec == Init /\ [][Next]_vars


\* ------------------------------------------------ a page of MaxBatch papers
\* esearch returns MaxBatch PMIDs for the first query and none for the others
BatchSources ==
  {[q \in 1..NumQueries |-> IF q = 1 THEN page ELSE << >>] :
     page \in [1..MaxBatch -> Pmids]}

InitBatch == InitOver(BatchSources)

SpecBatch == InitBatch /\ [][Next]_vars


\* ------------------------------------------------- the writer on long texts
DIGITS == <<"0", "1", "2", "3", "4", "5", "6", "7", "8", "9">>

\* a text of n characters, starting at digit d
Text(n, d) == [i \in 1..n |-> DIGITS[((i + d) % 10) + 1]]

\* the lengths around the slice of rt
TextLens == {0, RT_MAX - 1, RT_MAX, RT_MAX + 1, LongLen}

\* a paper as get_papers and analyze_paper hand it on (lines 87-92, 307-308)
LongPaper(pmid, lt, la) ==
  [pmid |-> pmid, title |-> Text(lt, 0), url |-> Url(pmid),
   analysis |-> [key \in expected_keys |->
                   CASE key = "summary"      -> Text(la, 1)
                     [] key = "methods"      -> Text(la, 2)
                     [] key = "population"   -> Text(la, 3)
                     [] key = "effect_sizes" -> Text(la, 4)
                     [] key = "hypothesis"   -> Text(la, 5)]]

\* run_scan at line 321 of its one query: two papers analysed, the batch
\* synthesised, nothing pushed yet; the title, the analysis texts, the
\* synthesis texts and the query have lengths lt, la, ls, ls
InitRt ==
  \E lt, la, ls \in TextLens :
    /\ pc = "Push"
    /\ exc = "none"
    /\ seen_file = NoFile
    /\ source = <<(<<"p1", "p2">>)>>
    /\ queries = <<Text(ls, 6)>>
    /\ seen = {}
    /\ qi = 1
    /\ analyzed = <<LongPaper("p1", lt, la), LongPaper("p2", la, lt)>>
    /\ papers = [i \in 1..2 |-> [pmid |-> analyzed[i].pmid,
                                 title |-> analyzed[i].title,
                                 url |-> analyzed[i].url]]
    /\ new_papers = papers
    /\ k = 3
    /\ synthesis = [contradictions |-> Text(ls, 7), new_hypotheses |-> Text(ls, 8)]
    /\ j = 1
    /\ filter_seen = {}
    /\ outcomes = <<"kept", "kept">>
    /\ calls = 3
    /\ syntheses = 1
    /\ pushes = << >>
    /\ inserted = NoInserts
    /\ lost = NoLoss
    /\ failed = NoFailed
    /\ source_up = TRUE
    /\ prev_done = FALSE

NextRt ==
  \/ PushStep
  \/ NextQuery

SpecRt == InitRt /\ [][NextRt]_vars


\* ================================================================= claims
InRun == pc \in {"Query", "Analyze", "Push"}

\* every query is done and save_seen is next
RunEnd == pc = "Query" /\ qi > Len(queries)

\* the batch of the current query is pushed
BatchEnd == pc = "Push" /\ j > Len(analyzed)

\* what seen_pmids.json lists
FileSet == Range(seen_file.content)

\* no page of the source holds a PMID twice
NoDupPages ==
  \A q \in DOMAIN source : \A a, b \in DOMAIN source[q] :
    a # b => source[q][a] # source[q][b]

\* the PMIDs that two or more queries return
SharedPmids ==
  {p \in Pmids : \E q1, q2 \in DOMAIN source :
     q1 # q2 /\ p \in Range(source[q1]) /\ p \in Range(source[q2])}

\* C1: when no page holds a PMID twice, the store accepts at most one insert
\* per run for every PMID that two or more queries return, whatever the
\* engine and the store answer.
C1_NoIntraRunDuplicates ==
  NoDupPages => \A p \in SharedPmids : inserted[p] <= 1

\* C1 witness: a run is over in which a PMID returned by both queries was
\* inserted once.
C1_Witness ==
  /\ pc = "Idle"
  /\ prev_done
  /\ NoDupPages
  /\ \E p \in SharedPmids : inserted[p] = 1

C9_Original ==
  (pc = "Push" /\ Len(analyzed) = 1) =>
    (synthesis = SingleSynthesis /\ calls = 1)

\* C9 amended: a batch of fewer than two analysed papers gets the single-item
\* synthesis (empty new hypotheses) without an engine call, so the engine
\* calls of its query are the extractions, one per new paper; a batch of two
\* or more costs one call more.
C9_BatchDegeneration ==
  pc = "Push" =>
    IF Len(analyzed) < 2
      THEN synthesis = SingleSynthesis /\ calls = Len(new_papers)
      ELSE calls = Len(new_papers) + 1

\* C9 witness: one new paper, analysed, and its batch synthesised with one
\* engine call made.
C9_Witness ==
  /\ pc = "Push"
  /\ Len(new_papers) = 1
  /\ Len(analyzed) = 1
  /\ synthesis = SingleSynthesis
  /\ calls = 1


\* the PMIDs of a sequence of papers, in order
PmidsOf(seq) == [i \in DOMAIN seq |-> seq[i].pmid]

\* the new papers analysed so far whose extraction did not fail, in order
RECURSIVE NotFailedFrom(_)
NotFailedFrom(i) ==
  IF i > Len(outcomes) THEN << >>
  ELSE (IF outcomes[i] # "failed" THEN <<new_papers[i].pmid>> ELSE << >>)
         \o NotFailedFrom(i + 1)

\* C3 as stated: an extraction that fails (the engine throws, or answers
\* with text that is not JSON) does not end the run; the failed paper's PMID
\* is not added to the dedup set (unless another copy of it was pushed), and
\* when the batch is pushed the papers pushed are exactly the others.
C3_Original ==
  /\ exc # "analyze_paper"
  /\ InRun =>
       \A i \in DOMAIN outcomes :
         (/\ outcomes[i] = "failed"
          /\ \A n \in DOMAIN pushes : pushes[n].pmid # new_papers[i].pmid)
           => new_papers[i].pmid \notin seen
  /\ (BatchEnd /\ \A i \in DOMAIN outcomes : outcomes[i] \in {"failed", "kept"})
       => PmidsOf(pushes) = NotFailedFrom(1)

\* C4 as stated: a store insert that fails, by status or by transport error,
\* does not end the run; the PMID of a paper whose pushes all failed is not
\* in the dedup set, and every analysed paper of the batch is pushed.
C4_Original ==
  /\ exc # "push_to_notion"
  /\ pc = "Push" =>
       \A i \in DOMAIN pushes :
         (\A n \in DOMAIN pushes :
            pushes[n].pmid = pushes[i].pmid => ~pushes[n].success)
           => pushes[i].pmid \notin seen
  /\ BatchEnd => PmidsOf(pushes) = PmidsOf(analyzed)

\* C5 as stated: once the query list is read nothing ends the run early;
\* only the missing query list does.
C5_Original == pc = "Dead" => exc = "open_keywords"

NOT_EXTRACTED ==
  <<"N", "o", "t", " ", "e", "x", "t", "r", "a", "c", "t", "e", "d">>

NOT_REPORTED ==
  <<"N", "o", "t", " ", "r", "e", "p", "o", "r", "t", "e", "d">>

\* the payload property that carries an analysis key
FieldOf(payload, key) ==
  CASE key = "summary"      -> payload.Summary
    [] key = "methods"      -> payload.Methods
    [] key = "population"   -> payload.Population
    [] key = "effect_sizes" -> payload.EffectSizes
    [] key = "hypothesis"   -> payload.Hypothesis

\* C6 as stated: every analysed paper holds all five keys, and the record
\* pushed for it carries a sentinel for each key the engine left out.
C6_Original ==
  /\ \A i \in DOMAIN analyzed : Keys(analyzed[i].analysis) = expected_keys
  /\ \A i \in DOMAIN pushes : \A key \in expected_keys :
       analyzed[i].analysis[key] = ABSENT
         => FieldOf(pushes[i].payload, key) \in {NOT_EXTRACTED, NOT_REPORTED}

\* C7 as stated: a paper whose PMID is in the dedup set when the page is
\* filtered is neither analysed nor pushed, every other paper of the page is
\* analysed (none is left unanalysed), and when every extraction yields an
\* analysis and every push succeeds the dedup set after the batch is the set
\* before it plus the PMIDs of the page.
C7_Original ==
  /\ pc \in {"Analyze", "Push"} =>
       /\ new_papers = SelectSeq(papers, LAMBDA p : p.pmid \notin filter_seen)
       /\ \A i \in DOMAIN analyzed : analyzed[i].pmid \notin filter_seen
       /\ \A i \in DOMAIN pushes : pushes[i].pmid \notin filter_seen
  /\ pc = "Push" => Len(outcomes) = Len(new_papers)
  /\ lost.unanalysed = 0
  /\ (/\ BatchEnd
      /\ \A i \in DOMAIN outcomes : outcomes[i] = "kept"
      /\ \A i \in DOMAIN pushes : pushes[i].success)
       => seen = filter_seen \cup Range(PmidsOf(papers))

\* C8 as stated: a record whose contradiction note is a sentinel is pushed
\* with Status "New", whatever the title.
C8_Original ==
  \A i \in DOMAIN pushes :
    pushes[i].payload.Contradicts \in {SINGLE_NOTE, ERROR_NOTE, NO_CONTRADICTIONS}
      => pushes[i].payload.Status = "New"

\* C10 as stated: a failure of the source, in the search or in a detail
\* fetch, does not leave get_papers as an exception.
C10_Original == exc # "get_papers"

\* the merged hypothesis before truncation (lines 233-236)
MergedHypothesis(analysis, synth) ==
  JoinNonEmpty(Get(analysis, "hypothesis", EMPTY),
               IF Get(synth, "new_hypotheses", EMPTY) # EMPTY
                 THEN CROSS_PAPER \o Get(synth, "new_hypotheses", EMPTY)
                 ELSE EMPTY)

\* the free-text fields of the i-th push, each with its source text
FreeText(i) ==
  LET pl == pushes[i].payload
      a  == analyzed[i].analysis
  IN  {<<pl.Name, analyzed[i].title>>,
       <<pl.Summary, Get(a, "summary", EMPTY)>>,
       <<pl.Methods, Get(a, "methods", EMPTY)>>,
       <<pl.Population, Get(a, "population", EMPTY)>>,
       <<pl.EffectSizes, Get(a, "effect_sizes", EMPTY)>>,
       <<pl.Hypothesis, MergedHypothesis(a, synthesis)>>,
       <<pl.Contradicts, Get(synthesis, "contradictions", EMPTY)>>,
       <<pl.Query, queries[qi]>>}

\* C11: every free-text field push_to_notion submits is the prefix of its
\* source text of length min(len, 2000): a text of 5000 characters (and any
\* longer than 2000) is submitted with exactly 2000 characters, a text of at
\* most 2000 characters unchanged.
C11_Truncation ==
  \A i \in DOMAIN pushes : \A f \in FreeText(i) :
    LET field == f[1]
        text  == f[2]
    IN  /\ Len(field) = (IF Len(text) < 2000 THEN Len(text) ELSE 2000)
        /\ \A n \in 1..Len(field) : field[n] = text[n]
        /\ Len(text) > 2000 => Len(field) = 2000
        /\ Len(text) <= 2000 => field = text

\* C11 witness: a record is pushed whose title of 5000 characters is cut to
\* 2000 and whose summary of 2000 characters is whole.
C11_Witness ==
  \E i \in DOMAIN pushes :
    /\ Len(analyzed[i].title) = 5000
    /\ Len(pushes[i].payload.Name) = 2000
    /\ Len(analyzed[i].analysis["summary"]) = 2000
    /\ pushes[i].payload.Summary = analyzed[i].analysis["summary"]


\* C12 as stated: when a run was ended by an exception after the store
\* accepted inserts, the dedup set the next run loads holds the PMIDs of
\* those inserts (so that the next run filters them).
C12_Original ==
  (pc = "Idle" /\ ~prev_done) =>
    \A p \in Pmids : inserted[p] > 0 => p \in load_seen(seen_file)


\* the PMIDs of the pushes of the current query that the store accepted
Accepted == {pushes[i].pmid : i \in {n \in DOMAIN pushes : pushes[n].success}}

\* C13: during a run every PMID of the dedup set that was not loaded from
\* the file has had an insert accepted in this run; the set does not change
\* while a batch is analysed and synthesised, and while it is pushed the set
\* is the set the page was filtered with plus the PMIDs whose push succeeded.
C13_RecordAfterWrite ==
  InRun =>
    /\ \A p \in seen \ load_seen(seen_file) : inserted[p] > 0
    /\ pc = "Analyze" => seen = filter_seen
    /\ pc = "Push" => seen = filter_seen \cup Accepted

\* C13 witness: in one batch the store accepted one paper and refused
\* another; the first PMID is new in the dedup set, the second is not in it.
C13_Witness ==
  /\ pc = "Push"
  /\ \E i, n \in DOMAIN pushes :
       /\ pushes[i].success
       /\ pushes[i].pmid \in seen \ load_seen(seen_file)
       /\ ~pushes[n].success
       /\ pushes[n].pmid \notin seen


\* the PMIDs of a sequence of papers
PmidSet(seq) == Range(PmidsOf(seq))

\* the batch of the current query is over without a push
BatchSkipped == pc = "Analyze" /\ k > Len(new_papers) /\ analyzed = << >>

C15_Original == InRun => \A p \in Pmids : inserted[p] <= 1


\* C16 as stated: whatever the engine answers to the synthesis call of a
\* batch of two or more papers, the run goes on to push the batch (no
\* exception between synthesize_batch and the push loop), and a batch whose
\* synthesis is not the engine's object is pushed with the error synthesis.
C16_Original ==
  /\ exc # "synthesis_get"
  /\ (pc = "Push" /\ Len(analyzed) >= 2 /\ synthesis \notin SynthDicts)
       => synthesis = ErrorSynthesis


\* C17 as stated: a paper for which the engine answered with an object
\* holding any subset of the five keys, or with that object in a one-element
\* list, is kept in the batch, and the batch is handed to the synthesis and
\* on to the push loop without an exception.
C17_Original ==
  /\ \A i \in DOMAIN outcomes : outcomes[i] # "empty"
  /\ exc # "synthesize_batch"


RECURSIVE KeptFrom(_)
KeptFrom(i) ==
  IF i > Len(outcomes) THEN << >>
  ELSE (IF outcomes[i] = "kept" THEN <<new_papers[i]>> ELSE << >>)
         \o KeptFrom(i + 1)

\* a is b with some elements left out
RECURSIVE IsSubSeq(_, _)
IsSubSeq(a, b) ==
  IF a = << >> THEN TRUE
  ELSE IF b = << >> THEN FALSE
  ELSE IF Head(a) = Head(b) THEN IsSubSeq(Tail(a), Tail(b))
  ELSE IsSubSeq(a, Tail(b))

\* C19: in a batch of two or more analysed papers the item numbered n in the
\* synthesis prompt is the n-th of the new papers whose extraction was kept
\* (those whose extraction failed are not counted), the new papers are in
\* the order esearch returned them, and the n-th push of the batch is of
\* that same paper.
C19_StableOrdinals ==
  (pc = "Push" /\ Len(analyzed) >= 2) =>
    LET prompt == Summaries(analyzed)
        kept   == KeptFrom(1)
    IN  /\ Len(prompt) = Len(kept)
        /\ \A n \in DOMAIN prompt :
             /\ prompt[n].ordinal = n
             /\ prompt[n].title = kept[n].title
             /\ analyzed[n].pmid = kept[n].pmid
        /\ IsSubSeq(PmidsOf(new_papers), source[qi])
        /\ \A i \in DOMAIN pushes : pushes[i].pmid = kept[i].pmid

\* C19 witness: of three new papers the extraction of the second failed; the
\* third, another paper than the first, is item 2 of the prompt and was
\* pushed second.
C19_Witness ==
  /\ BatchEnd
  /\ Len(new_papers) = 3
  /\ outcomes = <<"kept", "failed", "kept">>
  /\ new_papers[1].pmid # new_papers[3].pmid
  /\ Summaries(analyzed)[2].ordinal = 2
  /\ Summaries(analyzed)[2].title = new_papers[3].title
  /\ PmidsOf(pushes) = <<new_papers[1].pmid, new_papers[3].pmid>>


====
